---- MODULE Spec2Model ----
(***************************************************************************)
(* State-machine model of H2Connection (src/src/h2spacex/h2_connection.py):*)
(* the connection lifecycle (setup_connection, close_connection), the      *)
(* stream-id allocator (generate_stream_ids), the single-packet request    *)
(* splitter (create_single_packet_http2_request_frames) and the send path  *)
(* (send_bytes, send_frames, send_ping_frame, send_simple_http2_request)   *)
(* and the response listener thread (read_response_from_socket).           *)
(*                                                                         *)
(* The frame codec (h2_frames.create_headers_frame, create_go_away_frame,  *)
(* create_ping_frame, create_settings_frame) is not part of the sources at *)
(* hand; it is modelled from the specification's section 6 and 4.3.        *)
(***************************************************************************)
EXTENDS Integers, Sequences, FiniteSets, TLC

\* ------------------------------------------------------------------ bounds

\* Largest stream id the allocator may reach in the model (Python ints are
\* unbounded; the guard of GenerateStreamIds caps the counter here).
MaxStreamId == 7

\* Largest number_of_streams argument tried.
MaxN == 2

\* Largest initial last_used_stream_id of the allocator-only specification.
MaxInitId == 4

\* Most calls of socket.send one behaviour may make.
MaxSends == 4

\* Most sends the environment lets fail in one behaviour.
MaxSendFailures == 1

\* Most sends of which the environment lets the transport take only a prefix.
MaxPartialSends == 1

\* Most transports one behaviour may open.
MaxSockets == 2

\* Longest request body (in characters) tried.
MaxBodyLen == 2

\* Most payload bytes the codec puts in one DATA frame (the codec's frame size,
\* scaled down so that short bodies span several frames).
MaxFrameData == 2

\* The timeout of a read_response_from_socket call, in ticks of the clock.
Timeout == 2

\* Most chunks one read_response_from_socket call receives.
MaxChunks == 3

\* Longest header name (in characters) tried.
MaxNameLen == 2

\* Most headers in a caller's header block.
MaxHeaders == 2

\* ------------------------------------------------------------------- state

VARIABLES
    proxy_hostname,         \* constructor parameter: TRUE when a proxy host is given
    raw_socket,             \* self.raw_socket: 0 is None, i > 0 is sockets[i]
    is_connection_closed,   \* self.is_connection_closed
    last_used_stream_id,    \* self.last_used_stream_id
    sockets,                \* every transport opened so far: [state, nodelay, via]
    socket_socket,          \* the process-wide name socket.socket: "socket" | "socksocket"
    sent,                   \* every call of socket.send so far: [sock, data, ok, whole, call]
    pc,                     \* where the lifecycle owner (the calling thread) is
    ret,                    \* outcome of the operation that ran last
    req,                    \* the split request the caller holds: [state, stream_id, body, bulk, trigger]
    issued,                 \* history: every stream id generate_stream_ids returned, in order
    hist,                   \* history: what the lifecycle operation in progress started from
    scenario,               \* which specification's environment this behaviour runs in
    lpc,                    \* where the response-listener thread is
    using_socket,           \* the listener's local using_socket: 0 is None
    response,               \* the listener's local response: the chunks received in this call
    elapsed,                \* time (in ticks) the listener's current read call has taken
    lret,                   \* outcome of the listener's last read_response_from_socket call
    handed                  \* the header block last handed to the frame codec: [op, given, check, headers]

\* The listener thread's variables.
lvars == << lpc, using_socket, response, elapsed, lret >>

vars == << proxy_hostname, raw_socket, is_connection_closed, last_used_stream_id,
           sockets, socket_socket, sent, pc, ret, req, issued, hist, scenario, lvars,
           handed >>

\* Most calls of socket.send one behaviour may make: the scenario that runs
\* whole sessions one after the other (set up, close, set up again) needs
\* room for one send more than the one that builds requests.
SendBudget == IF scenario = "sessions" THEN MaxSends + 1 ELSE MaxSends

\* ------------------------------------------------------------ small helpers

Last(s) == s[Len(s)]

Range(s) == { s[i] : i \in 1..Len(s) }

\* The outcome record every operation leaves behind.
Ret(op, status, ids, arg, before) ==
    [op |-> op, status |-> status, ids |-> ids, arg |-> arg, before |-> before]

NoArg == [kind |-> "none", val |-> 0]

\* What a caller may pass as number_of_streams: integers (negative, zero,
\* positive), the bool True (an instance of int in Python, worth 1), and
\* values that are no int at all (a float 2.0, None).
NArgs ==
    [kind : {"int"}, val : (-1)..MaxN]
        \cup [kind : {"bool"}, val : {1}]
        \cup [kind : {"float", "NoneType"}, val : {2}]

\* ------------------------------------------------------- generate_stream_ids

\* isinstance(number_of_streams, int): bool is a subclass of int.
IsInstanceInt(n) == n.kind \in {"int", "bool"}

ArgRejected_NoTypeCheck(n) == n.val <= 0

\* line 270: not isinstance(number_of_streams, int) or number_of_streams <= 0
ArgRejected(n) == ~IsInstanceInt(n) \/ n.val <= 0

NormalizedLast_Skip(last) == last

\* lines 274-275: an even last_used_stream_id is advanced to the next odd value
NormalizedLast(last) == IF last % 2 = 0 THEN last + 1 ELSE last

\* lines 277-285: list(range(start_stream_id, end_stream_id, 2))
StreamIdsList(last, n) ==
    LET start_stream_id == last + 2
        end_stream_id == (n * 2) + start_stream_id
        count == IF end_stream_id <= start_stream_id
                 THEN 0
                 ELSE (end_stream_id - start_stream_id + 1) \div 2
    IN  [i \in 1..count |-> start_stream_id + 2 * (i - 1)]

NewLastUsed_First(ids) == ids[1]

\* line 287: self.last_used_stream_id = stream_ids_list[-1]
NewLastUsed(ids) == Last(ids)

\* generate_stream_ids(number_of_streams), lines 263-288.
GenerateStreamIds(n) ==
    /\ pc = "idle"
    /\ IF ArgRejected(n)
       THEN \* lines 270-272: raise ValueError before anything is touched
            /\ ret' = Ret("generate_stream_ids", "ValueError", << >>, n, last_used_stream_id)
            /\ UNCHANGED << last_used_stream_id, issued >>
       ELSE LET last == NormalizedLast(last_used_stream_id)
                ids == StreamIdsList(last, n.val)
            IN  /\ last + 2 * n.val <= MaxStreamId
                /\ IF Len(ids) = 0
                   THEN \* lines 281-282: raise ValueError after the normalisation
                        /\ ret' = Ret("generate_stream_ids", "ValueError", << >>, n,
                                      last_used_stream_id)
                        /\ last_used_stream_id' = last
                        /\ UNCHANGED issued
                   ELSE /\ ret' = Ret("generate_stream_ids", "ok", ids, n, last_used_stream_id)
                        /\ last_used_stream_id' = NewLastUsed(ids)
                        /\ issued' = issued \o ids
    /\ UNCHANGED << scenario, lvars, handed, proxy_hostname, raw_socket, is_connection_closed, sockets,
                    socket_socket, sent, pc, req, hist >>

\* ---------------------------------------------------------------- __init__

\* The caller holds no split request yet.
NoReq == [state |-> "none", stream_id |-> 0, body |-> [kind |-> "None", v |-> << >>],
          bulk |-> << >>, trigger |-> << >>]

\* No request has been built yet: the frame codec was handed nothing.
NoHanded == [op |-> "none", given |-> << >>, check |-> TRUE, headers |-> << >>]

\* No read_response_from_socket call has ended yet.
NoRead == [status |-> "none", value |-> << >>]

\* No listener thread has been started (start_thread_response_parsing was not called).
NoListener ==
    /\ lpc = "off"
    /\ using_socket = 0
    /\ response = << >>
    /\ elapsed = 0
    /\ lret = NoRead

NoHist == [op |-> "none", closedAtStart |-> TRUE, sentAtStart |-> 0,
           sock |-> 0, connectFailed |-> FALSE, sendFailed |-> FALSE,
           completed |-> "none"]

\* H2Connection.__init__, lines 14-22: no socket, stream id 1, closed.
Init ==
    /\ proxy_hostname \in BOOLEAN
    /\ raw_socket = 0
    /\ is_connection_closed = TRUE
    /\ last_used_stream_id = 1
    /\ sockets = << >>
    /\ socket_socket = "socket"
    /\ sent = << >>
    /\ pc = "idle"
    /\ ret = Ret("__init__", "ok", << >>, NoArg, 1)
    /\ req = NoReq
    /\ issued = << >>
    /\ hist = NoHist
    /\ scenario = "requests"
    /\ NoListener
    /\ handed = NoHanded

\* The allocator on its own, started from any value of the (public) field
\* last_used_stream_id, odd or even.
InitAlloc ==
    /\ proxy_hostname \in BOOLEAN
    /\ raw_socket = 0
    /\ is_connection_closed = TRUE
    /\ last_used_stream_id \in 1..MaxInitId
    /\ sockets = << >>
    /\ socket_socket = "socket"
    /\ sent = << >>
    /\ pc = "idle"
    /\ ret = Ret("__init__", "ok", << >>, NoArg, 1)
    /\ req = NoReq
    /\ issued = << >>
    /\ hist = NoHist
    /\ scenario = "requests"
    /\ NoListener
    /\ handed = NoHanded

\* ------------------------------------------------------------- frame codec

\* A frame as the codec hands it over: its type, stream id, flag set, payload
\* bytes and, for GOAWAY and SETTINGS, the error code and the entries.
Frame(type, stream_id, flags, data) ==
    [type |-> type, stream_id |-> stream_id, flags |-> flags, data |-> data,
     err_code |-> 0, settings |-> << >>]

\* line 24: hex_bytes('505249202a20485454502f322e300d0a0d0a534d0d0a0d0a'),
\* the 24 bytes "PRI * HTTP/2.0\r\n\r\nSM\r\n\r\n" (raw bytes, no frame).
H2_PREFACE ==
    Frame("PREFACE", 0, {},
          << 80, 82, 73, 32, 42, 32, 72, 84, 84, 80, 47, 50, 46, 48, 13, 10,
             13, 10, 83, 77, 13, 10, 13, 10 >>)

\* lines 25-50: the default settings table in declaration order; the value of
\* SETTINGS_MAX_HEADER_LIST_SIZE is None.
DEFAULT_SETTINGS ==
    << [id |-> 1, isNone |-> FALSE, value |-> 4096],
       [id |-> 2, isNone |-> FALSE, value |-> 0],
       [id |-> 3, isNone |-> FALSE, value |-> 100],
       [id |-> 4, isNone |-> FALSE, value |-> 65535],
       [id |-> 5, isNone |-> FALSE, value |-> 16384],
       [id |-> 6, isNone |-> TRUE, value |-> 0] >>

\* h2_frames.create_settings_frame(settings): a SETTINGS frame on stream 0
\* carrying the entries it is given.
create_settings_frame(settings) ==
    [Frame("SETTINGS", 0, {}, << >>) EXCEPT !.settings = settings]

\* h2_frames.create_go_away_frame(err_code): a GOAWAY frame on stream 0.
create_go_away_frame(err_code) ==
    [Frame("GOAWAY", 0, {}, << >>) EXCEPT !.err_code = err_code]

\* h2_frames.create_ping_frame(ping_data): a PING frame on stream 0 whose
\* payload is the given data; "12345678" is the bytes 49..56.
create_ping_frame(ping_data) == Frame("PING", 0, {}, ping_data)

SettingsList_KeepsNone ==
    [i \in 1..Len(DEFAULT_SETTINGS) |-> << DEFAULT_SETTINGS[i].id, DEFAULT_SETTINGS[i].value >>]

\* lines 248-255: the entries whose value is not None, in table order.
SettingsList ==
    LET kept == SelectSeq(DEFAULT_SETTINGS, LAMBDA s : ~s.isNone)
    IN  [i \in 1..Len(kept) |-> << kept[i].id, kept[i].value >>]

\* ------------------------------------------------------------------- sends

\* socket.send on the socket self.raw_socket names hands the bytes over only
\* if that socket is open and the environment lets the send through.
Delivered(ok) == raw_socket # 0 /\ sockets[raw_socket].state = "open" /\ ok

\* What the environment may do to the next socket.send: let it through, or
\* (a bounded number of times) make it raise.
SendOutcomes ==
    IF Cardinality({ i \in 1..Len(sent) : ~sent[i].ok }) < MaxSendFailures
    THEN BOOLEAN
    ELSE {TRUE}

\* What a send operation leaves its caller with: nothing more when the bytes
\* were handed over; lines 147-148, the line '# Error in sending bytes: '
\* followed by the cause, printed, when socket.send raised.
SendStatus(ok) == IF Delivered(ok) THEN "ok" ELSE "error printed"

\* How much of the bytes a socket.send that did not raise may take: all of
\* them, or (a bounded number of times, in the scenario that looks at partial
\* sends) only a prefix, which socket.send reports by the count it returns.
\* A send that raised took nothing.
WholeOutcomes(ok) ==
    IF /\ Delivered(ok)
       /\ scenario = "partial"
       /\ Cardinality({ i \in 1..Len(sent) : sent[i].ok /\ ~sent[i].whole }) < MaxPartialSends
    THEN BOOLEAN
    ELSE {Delivered(ok)}

SendBytes_Queued(data, ok) ==
    IF raw_socket = 0
    THEN sent' = sent
    ELSE \E whole \in WholeOutcomes(ok) :
             sent' = << [sock |-> raw_socket, data |-> data, ok |-> Delivered(ok),
                         whole |-> whole, call |-> Len(sent) + 1] >> \o sent

\* send_bytes(bytes_data), lines 136-148: one socket.send on get_using_socket();
\* any exception (None has no send, a closed socket, a broken pipe) is printed
\* and swallowed.  With raw_socket None no socket.send takes place at all.
\* The count socket.send returns is not looked at (line 145), so a send that
\* took only a prefix of the bytes ends like one that took them all.
\* The log is in the order the transport was given the bytes; call is the
\* number of the socket.send call among those the connection has made.
SendBytes(data, ok) ==
    IF raw_socket = 0
    THEN sent' = sent
    ELSE \E whole \in WholeOutcomes(ok) :
             sent' = Append(sent, [sock |-> raw_socket, data |-> data, ok |-> Delivered(ok),
                                   whole |-> whole, call |-> Len(sent) + 1])

\* ------------------------------------------------------------ setup_connection

CreateSocksSocket_NoDelay(ok) ==
    /\ socket_socket' = "socksocket"
    /\ IF ok
       THEN /\ sockets' = Append(sockets, [state |-> "open", nodelay |-> 1, via |-> "socks"])
            /\ raw_socket' = Len(sockets) + 1
       ELSE UNCHANGED << sockets, raw_socket >>

\* _create_socks_socket, lines 90-104: patches socket.socket process-wide,
\* creates the socket with TCP_NODELAY set to 0 and connects through the proxy.
CreateSocksSocket(ok) ==
    /\ socket_socket' = "socksocket"
    /\ IF ok
       THEN /\ sockets' = Append(sockets, [state |-> "open", nodelay |-> 0, via |-> "socks"])
            /\ raw_socket' = Len(sockets) + 1
       ELSE UNCHANGED << sockets, raw_socket >>

CreateRawSocket_AssignsFirst(ok) ==
    /\ socket_socket' = IF proxy_hostname THEN "socksocket" ELSE socket_socket
    /\ sockets' = Append(sockets,
           [state |-> IF ok THEN "open" ELSE "unconnected", nodelay |-> 0,
            via |-> IF proxy_hostname \/ socket_socket = "socksocket"
                    THEN "socks" ELSE "direct"])
    /\ raw_socket' = Len(sockets) + 1

\* _create_raw_socket, lines 106-123: the proxied variant when proxy_hostname
\* is set, else socket.socket(...) (whatever class that name holds), with
\* TCP_NODELAY set to 0, connected to hostname:port_number.
CreateRawSocket(ok) ==
    IF proxy_hostname
    THEN CreateSocksSocket(ok)
    ELSE /\ UNCHANGED socket_socket
         /\ IF ok
            THEN /\ sockets' = Append(sockets,
                        [state |-> "open", nodelay |-> 0,
                         via |-> IF socket_socket = "socksocket" THEN "socks" ELSE "direct"])
                 /\ raw_socket' = Len(sockets) + 1
            ELSE UNCHANGED << sockets, raw_socket >>

SetupCreateSocket_GoesOn(ok) ==
    /\ pc = "idle"
    /\ Len(sent) + 2 <= SendBudget
    /\ Len(sockets) < MaxSockets
    /\ CreateRawSocket(ok)
    /\ hist' = [hist EXCEPT !.op = "setup", !.closedAtStart = is_connection_closed,
                            !.sentAtStart = Len(sent), !.sock = raw_socket,
                            !.connectFailed = ~ok, !.sendFailed = FALSE]
    /\ pc' = "setup_preface"
    /\ ret' = Ret("setup_connection", IF ok THEN "running" ELSE "exit(1)", << >>, NoArg, 0)
    /\ UNCHANGED << scenario, lvars, handed, proxy_hostname, is_connection_closed, last_used_stream_id, sent, req, issued >>

\* setup_connection, lines 57-58 and 61-63: open the transport; a failure to
\* connect is caught, printed and ends the process with exit(1).
SetupCreateSocket(ok) ==
    /\ pc = "idle"
    /\ Len(sent) + 2 <= SendBudget
    /\ Len(sockets) < MaxSockets
    /\ CreateRawSocket(ok)
    /\ hist' = [hist EXCEPT !.op = "setup", !.closedAtStart = is_connection_closed,
                            !.sentAtStart = Len(sent), !.sock = raw_socket,
                            !.connectFailed = ~ok, !.sendFailed = FALSE]
    /\ pc' = IF ok THEN "setup_preface" ELSE "exited"
    /\ ret' = Ret("setup_connection", IF ok THEN "running" ELSE "exit(1)", << >>, NoArg, 0)
    /\ UNCHANGED << scenario, lvars, handed, proxy_hostname, is_connection_closed, last_used_stream_id, sent, req, issued >>

\* setup_connection, line 59 (_send_h2_connection_preface, lines 125-127).
SetupSendPreface(ok) ==
    /\ pc = "setup_preface"
    /\ SendBytes(<< H2_PREFACE >>, ok)
    /\ hist' = [hist EXCEPT !.sendFailed = @ \/ ~Delivered(ok)]
    /\ pc' = "setup_settings"
    /\ UNCHANGED << scenario, lvars, handed, proxy_hostname, raw_socket, is_connection_closed, last_used_stream_id,
                    sockets, socket_socket, ret, req, issued >>

\* setup_connection, line 60 (_send_client_initial_settings_frame, lines 242-257).
SetupSendSettings(ok) ==
    /\ pc = "setup_settings"
    /\ SendBytes(<< create_settings_frame(SettingsList) >>, ok)
    /\ hist' = [hist EXCEPT !.sendFailed = @ \/ ~Delivered(ok)]
    /\ pc' = "setup_else"
    /\ UNCHANGED << scenario, lvars, handed, proxy_hostname, raw_socket, is_connection_closed, last_used_stream_id,
                    sockets, socket_socket, ret, req, issued >>

SetupElse_KeepsFlag ==
    /\ pc = "setup_else"
    /\ pc' = "idle"
    /\ ret' = Ret("setup_connection", "ok", << >>, NoArg, 0)
    /\ hist' = [hist EXCEPT !.completed = "setup"]
    /\ UNCHANGED << scenario, lvars, handed, proxy_hostname, raw_socket, is_connection_closed, last_used_stream_id,
                    sockets, socket_socket, sent, req, issued >>

\* setup_connection, lines 65-66: no exception reached the handler, so the
\* connection is marked open and the call returns.
SetupElse ==
    /\ pc = "setup_else"
    /\ is_connection_closed' = FALSE
    /\ pc' = "idle"
    /\ ret' = Ret("setup_connection", "ok", << >>, NoArg, 0)
    /\ hist' = [hist EXCEPT !.completed = "setup"]
    /\ UNCHANGED << scenario, lvars, handed, proxy_hostname, raw_socket, last_used_stream_id, sockets,
                    socket_socket, sent, req, issued >>

\* exit(1), line 63, raises SystemExit in the calling thread; a caller that
\* catches it goes on with the connection as setup_connection left it.
CatchSystemExit ==
    /\ pc = "exited"
    /\ pc' = "idle"
    /\ UNCHANGED << scenario, lvars, handed, proxy_hostname, raw_socket, is_connection_closed,
                    last_used_stream_id, sockets, socket_socket, sent, ret, req, issued, hist >>

\* A socket that neither self.raw_socket nor the listener's using_socket
\* names any more (lines 102 and 121 have rebound raw_socket to a new one)
\* is the garbage collector's: whenever it finalises the object, the socket
\* is closed, with no GOAWAY and not by close_connection.
Finalize(i) ==
    /\ i # raw_socket
    /\ i # using_socket
    /\ sockets[i].state = "open"
    /\ sockets' = [sockets EXCEPT ![i].state = "collected"]
    /\ UNCHANGED << scenario, lvars, handed, proxy_hostname, raw_socket, is_connection_closed,
                    last_used_stream_id, socket_socket, sent, pc, ret, req, issued, hist >>

\* ------------------------------------------------------------ close_connection

CloseSendGoAway_ErrCode1(ok) ==
    /\ pc = "idle"
    /\ Len(sent) < SendBudget
    /\ SendBytes(<< create_go_away_frame(1) >>, ok)
    /\ hist' = [hist EXCEPT !.op = "close", !.closedAtStart = is_connection_closed,
                            !.sentAtStart = Len(sent), !.sock = raw_socket,
                            !.connectFailed = FALSE, !.sendFailed = ~Delivered(ok)]
    /\ pc' = "close_close"
    /\ ret' = Ret("close_connection", "running", << >>, NoArg, 0)
    /\ UNCHANGED << scenario, lvars, handed, proxy_hostname, raw_socket, is_connection_closed, last_used_stream_id,
                    sockets, socket_socket, req, issued >>

\* close_connection, lines 236-237: build GOAWAY with err_code=0 and send it.
CloseSendGoAway(ok) ==
    /\ pc = "idle"
    /\ Len(sent) < SendBudget
    /\ SendBytes(<< create_go_away_frame(0) >>, ok)
    /\ hist' = [hist EXCEPT !.op = "close", !.closedAtStart = is_connection_closed,
                            !.sentAtStart = Len(sent), !.sock = raw_socket,
                            !.connectFailed = FALSE, !.sendFailed = ~Delivered(ok)]
    /\ pc' = "close_close"
    /\ ret' = Ret("close_connection", "running", << >>, NoArg, 0)
    /\ UNCHANGED << scenario, lvars, handed, proxy_hostname, raw_socket, is_connection_closed, last_used_stream_id,
                    sockets, socket_socket, req, issued >>

\* close_connection, line 238: self.raw_socket.close(); with raw_socket None
\* this raises AttributeError, which nothing catches: the call ends there.
CloseSocketClose ==
    /\ pc = "close_close"
    /\ IF raw_socket = 0
       THEN /\ pc' = "idle"
            /\ ret' = Ret("close_connection", "AttributeError", << >>, NoArg, 0)
            /\ UNCHANGED sockets
       ELSE /\ sockets' = [sockets EXCEPT ![raw_socket].state = "closed"]
            /\ pc' = "close_none"
            /\ UNCHANGED ret
    /\ UNCHANGED << scenario, lvars, handed, proxy_hostname, raw_socket, is_connection_closed, last_used_stream_id,
                    socket_socket, sent, req, issued, hist >>

CloseSetNone_KeepsSocket ==
    /\ pc = "close_none"
    /\ pc' = "close_flag"
    /\ UNCHANGED << scenario, lvars, handed, proxy_hostname, raw_socket, is_connection_closed, last_used_stream_id,
                    sockets, socket_socket, sent, ret, req, issued, hist >>

\* close_connection, line 239: self.raw_socket = None
CloseSetNone ==
    /\ pc = "close_none"
    /\ raw_socket' = 0
    /\ pc' = "close_flag"
    /\ UNCHANGED << scenario, lvars, handed, proxy_hostname, is_connection_closed, last_used_stream_id, sockets,
                    socket_socket, sent, ret, req, issued, hist >>

\* close_connection, line 240: self.is_connection_closed = True, and return.
CloseSetFlag ==
    /\ pc = "close_flag"
    /\ is_connection_closed' = TRUE
    /\ pc' = "idle"
    /\ ret' = Ret("close_connection", "ok", << >>, NoArg, 0)
    /\ hist' = [hist EXCEPT !.completed = "close"]
    /\ UNCHANGED << scenario, lvars, handed, proxy_hostname, raw_socket, last_used_stream_id, sockets,
                    socket_socket, sent, req, issued >>

\* -------------------------------------------------------------- send_ping_frame

SendPingFrame_ClosesOnError(ok) ==
    /\ pc = "idle"
    /\ Len(sent) < SendBudget
    /\ SendBytes(<< create_ping_frame(<< 49, 50, 51, 52, 53, 54, 55, 56 >>) >>, ok)
    /\ ret' = Ret("send_ping_frame", SendStatus(ok), << >>, NoArg, 0)
    /\ is_connection_closed' = (is_connection_closed \/ ~Delivered(ok))
    /\ UNCHANGED << scenario, lvars, handed, proxy_hostname, raw_socket, last_used_stream_id,
                    sockets, socket_socket, pc, req, issued, hist >>

\* send_ping_frame(ping_data="12345678"), lines 219-229.
SendPingFrame(ok) ==
    /\ pc = "idle"
    /\ Len(sent) < SendBudget
    /\ SendBytes(<< create_ping_frame(<< 49, 50, 51, 52, 53, 54, 55, 56 >>) >>, ok)
    /\ ret' = Ret("send_ping_frame", SendStatus(ok), << >>, NoArg, 0)
    /\ UNCHANGED << scenario, lvars, handed, proxy_hostname, raw_socket, is_connection_closed, last_used_stream_id,
                    sockets, socket_socket, pc, req, issued, hist >>

\* ------------------------------------------------------------- header blocks

\* The characters header names are made of: "A" and "a".
NameChars == {65, 97}

\* A header name: 1 to MaxNameLen characters.
HeaderNames == UNION { [1..k -> NameChars] : k \in 1..MaxNameLen }

\* What a caller may pass as headers_string: up to MaxHeaders lines
\* "name: value", here with the one value "A".
HeaderBlocks ==
    UNION { [1..k -> [name : HeaderNames, value : {<< 65 >>}]] : k \in 0..MaxHeaders }

\* The header block of the requests built where the headers are not what is
\* looked at: "Aa: A", sent with check_headers_lowercase left at its default.
UsualHeaders == << [name |-> << 65, 97 >>, value |-> << 65 >>] >>

\* str.lower() on one character: "A".."Z" become "a".."z".
Lower(c) == IF c \in 65..90 THEN c + 32 ELSE c

LowerStr(str) == [i \in 1..Len(str) |-> Lower(str[i])]

\* utils.make_header_names_small(headers_string): every header's name in
\* lower case, its value as it was.
make_header_names_small(headers_string) ==
    [i \in 1..Len(headers_string) |->
        [name |-> LowerStr(headers_string[i].name), value |-> headers_string[i].value]]

HeadersForCodec_Never(headers_string, check_headers_lowercase) == headers_string

\* lines 318-319, 431-432, 473-474: the header block is lowercased only
\* when check_headers_lowercase is true; it is then what
\* h2_frames.create_headers_frame is given as headers_string.
HeadersForCodec(headers_string, check_headers_lowercase) ==
    IF check_headers_lowercase
    THEN make_header_names_small(headers_string)
    ELSE headers_string

\* What the codec was handed by operation op.
Handed(op, headers_string, check_headers_lowercase) ==
    [op |-> op, given |-> headers_string, check |-> check_headers_lowercase,
     headers |-> HeadersForCodec(headers_string, check_headers_lowercase)]

\* ----------------------------------------- create_single_packet_http2_request_frames

\* The characters request bodies are made of: "a" (one byte in UTF-8) and
\* U+00E9 (two bytes in UTF-8).
Chars == {97, 233}

\* What a caller may pass as body: None, or a str of up to MaxBodyLen characters.
Bodies ==
    { [kind |-> "None", v |-> << >>] }
        \cup { [kind |-> "str", v |-> s] :
                 s \in UNION { [1..k -> Chars] : k \in 0..MaxBodyLen } }

\* Python truthiness of a body: None and the empty str or bytes are falsy.
Truthy(body) == body.kind # "None" /\ Len(body.v) > 0

\* The UTF-8 encoding of one character below U+0800.
Utf8Char(c) == IF c < 128 THEN << c >> ELSE << 192 + (c \div 64), 128 + (c % 64) >>

RECURSIVE Utf8(_)
\* bytes(body, 'utf-8'): the encodings of the characters, concatenated.
Utf8(str) == IF Len(str) = 0 THEN << >> ELSE Utf8Char(Head(str)) \o Utf8(Tail(str))

\* lines 315-316: a truthy body is encoded; None and "" stay what they are.
EncodedBody(body) == IF Truthy(body) THEN [kind |-> "bytes", v |-> Utf8(body.v)] ELSE body

RECURSIVE DataFrames(_, _)
\* The DATA frames of a body: payloads of at most MaxFrameData bytes, the
\* end-of-stream flag on the last one.
DataFrames(stream_id, bytes) ==
    IF Len(bytes) <= MaxFrameData
    THEN << Frame("DATA", stream_id, {"ES"}, bytes) >>
    ELSE << Frame("DATA", stream_id, {}, SubSeq(bytes, 1, MaxFrameData)) >>
             \o DataFrames(stream_id, SubSeq(bytes, MaxFrameData + 1, Len(bytes)))

\* h2_frames.create_headers_frame(..., stream_id, body): the HEADERS frame,
\* followed by the body's DATA frames when a body is present; the last frame
\* carries the end-of-stream flag (the HEADERS frame itself without a body).
create_headers_frame(stream_id, body) ==
    IF Truthy(body)
    THEN << Frame("HEADERS", stream_id, {"EH"}, << >>) >> \o DataFrames(stream_id, body.v)
    ELSE << Frame("HEADERS", stream_id, {"EH", "ES"}, << >>) >>

\* Only a DATA frame has the field .data (h2.H2DataFrame(data=...), line 340).
HasDataField(frame) == frame.type = "DATA"

\* data[-1:]: the last byte, or nothing of an empty payload.
LastByte(data) == IF Len(data) = 0 THEN << >> ELSE << data[Len(data)] >>

\* data[:-1]: all but the last byte.
AllButLast(data) == IF Len(data) = 0 THEN << >> ELSE SubSeq(data, 1, Len(data) - 1)

SplitRequest_KeepsByte(request_frames, body, stream_id) ==
    LET n == Len(request_frames)
        last == request_frames[n]
    IN  IF body.kind # "None"
        THEN IF ~HasDataField(last) THEN [status |-> "AttributeError", bulk |-> << >>,
                                          trigger |-> << >>]
             ELSE [status |-> "ok",
                   bulk |-> [request_frames EXCEPT ![n].flags = @ \ {"ES"}],
                   trigger |-> << Frame("DATA", stream_id, {"ES"}, LastByte(last.data)) >>]
        ELSE [status |-> "ok",
              bulk |-> [request_frames EXCEPT ![n].flags = @ \ {"ES"}],
              trigger |-> << Frame("DATA", stream_id, {"ES"}, << >>) >>]

SplitRequest_KeepsFlag(request_frames, body, stream_id) ==
    LET n == Len(request_frames)
        last == request_frames[n]
    IN  IF body.kind # "None"
        THEN IF ~HasDataField(last) THEN [status |-> "AttributeError", bulk |-> << >>,
                                          trigger |-> << >>]
             ELSE [status |-> "ok",
                   bulk |-> [request_frames EXCEPT ![n].data = AllButLast(@)],
                   trigger |-> << Frame("DATA", stream_id, {"ES"}, LastByte(last.data)) >>]
        ELSE [status |-> "ok",
              bulk |-> request_frames,
              trigger |-> << Frame("DATA", stream_id, {"ES"}, << >>) >>]

\* lines 332-349: with body != None, move the last byte of the last frame's
\* .data and the ES flag to a new DATA frame; with body None, move the flag
\* only and give the new DATA frame an empty payload.  Reading .data of a
\* frame that has none raises AttributeError, removing an ES flag that is
\* not set raises KeyError.
SplitRequest(request_frames, body, stream_id) ==
    LET n == Len(request_frames)
        last == request_frames[n]
    IN  IF body.kind # "None"
        THEN IF ~HasDataField(last)
             THEN [status |-> "AttributeError", bulk |-> << >>, trigger |-> << >>]
             ELSE IF "ES" \notin last.flags
             THEN [status |-> "KeyError", bulk |-> << >>, trigger |-> << >>]
             ELSE [status |-> "ok",
                   bulk |-> [request_frames EXCEPT ![n].data = AllButLast(@),
                                                   ![n].flags = @ \ {"ES"}],
                   trigger |-> << Frame("DATA", stream_id, {"ES"}, LastByte(last.data)) >>]
        ELSE IF "ES" \notin last.flags
             THEN [status |-> "KeyError", bulk |-> << >>, trigger |-> << >>]
             ELSE [status |-> "ok",
                   bulk |-> [request_frames EXCEPT ![n].flags = @ \ {"ES"}],
                   trigger |-> << Frame("DATA", stream_id, {"ES"}, << >>) >>]

\* The stream ids a caller has for a new request: those generate_stream_ids
\* issued that are above the one its previous request used.
FreeStreamIds == { id \in Range(issued) : id > req.stream_id }

\* create_single_packet_http2_request_frames(..., stream_id, body), lines 290-349.
\* The caller keeps the pair it gets; an exception leaves it with nothing.
CreateSinglePacket(stream_id, body, headers_string, check_headers_lowercase) ==
    /\ pc = "idle"
    /\ req.state \in {"none", "done", "error"}
    /\ LET encoded == EncodedBody(body)
           request_frames == create_headers_frame(stream_id, encoded)
           split == SplitRequest(request_frames, encoded, stream_id)
       IN  /\ req' = [state |-> IF split.status = "ok" THEN "built" ELSE "error",
                      stream_id |-> stream_id, body |-> body,
                      bulk |-> split.bulk, trigger |-> split.trigger]
           /\ ret' = Ret("create_single_packet_http2_request_frames", split.status,
                         << >>, NoArg, 0)
    /\ handed' = Handed("create_single_packet_http2_request_frames", headers_string,
                        check_headers_lowercase)
    /\ UNCHANGED << scenario, lvars, proxy_hostname, raw_socket, is_connection_closed, last_used_stream_id,
                    sockets, socket_socket, sent, pc, issued, hist >>

\* ------------------------------------------------------------------ send_frames

\* send_frames(frames), lines 150-157, called with the bulk group of the
\* split request.
SendFramesBulk(ok) ==
    /\ pc = "idle"
    /\ req.state = "built"
    /\ Len(sent) < SendBudget
    /\ SendBytes(req.bulk, ok)
    /\ req' = [req EXCEPT !.state = "bulk_sent"]
    /\ ret' = Ret("send_frames", SendStatus(ok), << >>, NoArg, 0)
    /\ UNCHANGED << scenario, lvars, handed, proxy_hostname, raw_socket, is_connection_closed, last_used_stream_id,
                    sockets, socket_socket, pc, issued, hist >>

\* send_frames(frames), lines 150-157, called afterwards with the trigger frame.
SendFramesTrigger(ok) ==
    /\ pc = "idle"
    /\ req.state = "bulk_sent"
    /\ Len(sent) < SendBudget
    /\ SendBytes(req.trigger, ok)
    /\ req' = [req EXCEPT !.state = "done"]
    /\ ret' = Ret("send_frames", SendStatus(ok), << >>, NoArg, 0)
    /\ UNCHANGED << scenario, lvars, handed, proxy_hostname, raw_socket, is_connection_closed, last_used_stream_id,
                    sockets, socket_socket, pc, issued, hist >>

\* ------------------------------------------------------------------ send_bytes

\* Bytes a caller hands to send_bytes itself: one group that is no frame.
RawBytes == << Frame("RAW", 0, {}, << 0 >>) >>

\* send_bytes(bytes_data), lines 136-148, called by the user: it returns the
\* time of the send, or None after printing the error.
SendBytesCall(ok) ==
    /\ pc = "idle"
    /\ Len(sent) < SendBudget
    /\ SendBytes(RawBytes, ok)
    /\ ret' = Ret("send_bytes", SendStatus(ok), << >>, NoArg, 0)
    /\ UNCHANGED << scenario, lvars, handed, proxy_hostname, raw_socket, is_connection_closed, last_used_stream_id,
                    sockets, socket_socket, pc, req, issued, hist >>

\* ------------------------------------------------- create_simple_http2_request

\* create_simple_http2_request(..., stream_id, body), lines 404-444: the
\* frames of the whole request, nothing split off.
create_simple_http2_request(stream_id, body) ==
    create_headers_frame(stream_id, EncodedBody(body))

\* create_simple_http2_request(..., headers_string, stream_id, body,
\* check_headers_lowercase), lines 404-444, called for its own sake: the
\* frames go back to the caller.
CreateSimpleHttp2Request(stream_id, body, headers_string, check_headers_lowercase) ==
    /\ pc = "idle"
    /\ handed' = Handed("create_simple_http2_request", headers_string, check_headers_lowercase)
    /\ ret' = Ret("create_simple_http2_request", "ok", << >>, NoArg, 0)
    /\ UNCHANGED << scenario, lvars, proxy_hostname, raw_socket, is_connection_closed, last_used_stream_id,
                    sockets, socket_socket, sent, pc, req, issued, hist >>

\* send_frames(frames), lines 150-157, called with the frames of a request
\* create_simple_http2_request has built.
SendFramesCall(frames, ok) ==
    /\ pc = "idle"
    /\ Len(sent) < SendBudget
    /\ SendBytes(frames, ok)
    /\ ret' = Ret("send_frames", SendStatus(ok), << >>, NoArg, 0)
    /\ UNCHANGED << scenario, lvars, handed, proxy_hostname, raw_socket, is_connection_closed, last_used_stream_id,
                    sockets, socket_socket, pc, req, issued, hist >>

\* ---------------------------------------------------- send_simple_http2_request

\* The stream ids a caller passes to send_simple_http2_request.
SimpleStreamIds == {1, 3}

\* send_simple_http2_request(..., stream_id, body), lines 446-499: body_bytes
\* is assigned only for a truthy body (lines 470-471), so with None or "" its
\* use at line 483 raises UnboundLocalError before the codec is called and
\* before anything is sent; else the HEADERS and DATA frames go out in one
\* send_bytes.
SendSimpleHttp2Request(stream_id, body, headers_string, check_headers_lowercase, ok) ==
    /\ pc = "idle"
    /\ Len(sent) < SendBudget
    /\ IF Truthy(body)
       THEN /\ SendBytes(create_headers_frame(stream_id, EncodedBody(body)), ok)
            /\ ret' = Ret("send_simple_http2_request", SendStatus(ok), << >>, NoArg, 0)
            /\ handed' = Handed("send_simple_http2_request", headers_string,
                                check_headers_lowercase)
       ELSE /\ UNCHANGED << sent, handed >>
            /\ ret' = Ret("send_simple_http2_request", "UnboundLocalError", << >>, NoArg, 0)
    /\ UNCHANGED << scenario, lvars, proxy_hostname, raw_socket, is_connection_closed, last_used_stream_id,
                    sockets, socket_socket, pc, req, issued, hist >>

\* ------------------------------------------ other connections of the process

\* Another H2Connection of the same process, constructed with a proxy, runs
\* its setup_connection: _create_socks_socket, lines 97-98, sets the default
\* proxy of the socks module and rebinds the name socket.socket.  Its own
\* transport is its own; only the rebinding reaches this connection.
OtherProxiedSetup ==
    /\ pc = "idle"
    /\ socket_socket = "socket"
    /\ socket_socket' = "socksocket"
    /\ UNCHANGED << scenario, lvars, handed, proxy_hostname, raw_socket, is_connection_closed, last_used_stream_id,
                    sockets, sent, pc, ret, req, issued, hist >>

\* ------------------------------------------------------- the response listener

\* start_thread_response_parsing, lines 82-86: the calling thread starts the
\* thread that runs __thread_response_frame_parsing.
ListenerStart ==
    /\ pc = "idle"
    /\ lpc = "off"
    /\ lpc' = "while"
    /\ UNCHANGED << scenario, handed, proxy_hostname, raw_socket, is_connection_closed, last_used_stream_id,
                    sockets, socket_socket, sent, pc, ret, req, issued, hist,
                    using_socket, response, elapsed, lret >>

\* line 76: while not self.is_connection_closed; a true flag ends the loop
\* and with it the thread, a false one calls read_response_from_socket.
ListenerWhile ==
    /\ lpc = "while"
    /\ lpc' = IF is_connection_closed THEN "done" ELSE "get_using_socket"
    /\ UNCHANGED << scenario, handed, proxy_hostname, raw_socket, is_connection_closed, last_used_stream_id,
                    sockets, socket_socket, sent, pc, ret, req, issued, hist,
                    using_socket, response, elapsed, lret >>

\* read_response_from_socket, line 170: using_socket = self.get_using_socket().
ListenerGetUsingSocket ==
    /\ lpc = "get_using_socket"
    /\ using_socket' = raw_socket
    /\ response' = << >>
    /\ elapsed' = 0
    /\ lpc' = "settimeout"
    /\ UNCHANGED << scenario, handed, proxy_hostname, raw_socket, is_connection_closed, last_used_stream_id,
                    sockets, socket_socket, sent, pc, ret, req, issued, hist, lret >>

\* lines 171-175: using_socket.settimeout(timeout); on None (AttributeError)
\* and on a closed socket (OSError) the exception is caught and the call
\* returns b''.
ListenerSetTimeout ==
    /\ lpc = "settimeout"
    /\ IF using_socket = 0 \/ sockets[using_socket].state = "closed"
       THEN /\ lret' = [status |-> "returned", value |-> << >>]
            /\ lpc' = "while"
       ELSE /\ lpc' = "recv"
            /\ UNCHANGED lret
    /\ UNCHANGED << scenario, handed, proxy_hostname, raw_socket, is_connection_closed, last_used_stream_id,
                    sockets, socket_socket, sent, pc, ret, req, issued, hist,
                    using_socket, response, elapsed >>

\* What a recv on an open socket may end with: a chunk of data, b'' (the
\* peer has closed), socket.timeout, or another error of the transport
\* (ConnectionResetError).
RecvOutcomes == {"data", "eof", "timeout", "reset"}

\* lines 179-186, one turn of the loop: data = using_socket.recv(4096).  A
\* chunk that arrives after wait ticks (less than the timeout, which starts
\* anew with every recv) is added to response and the loop goes on; b'' and
\* socket.timeout end the loop and the call returns response (line 207),
\* which the listener hands to the parser when it is not empty (lines 78-79).
\* Any other exception is not caught, neither here nor by the listener (line
\* 80 catches KeyboardInterrupt only): recv on a socket that close_connection
\* has closed raises OSError, a reset by the peer ConnectionResetError, and
\* the thread ends with it.
ListenerRecv(outcome, wait) ==
    /\ lpc = "recv"
    /\ IF sockets[using_socket].state = "closed"
       THEN /\ lret' = [status |-> "raised OSError", value |-> << >>]
            /\ lpc' = "crashed"
            /\ UNCHANGED << response, elapsed >>
       ELSE CASE outcome = "data" ->
                    /\ Len(response) < MaxChunks
                    /\ response' = Append(response, Len(response) + 1)
                    /\ elapsed' = elapsed + wait
                    /\ UNCHANGED << lpc, lret >>
              [] outcome = "eof" ->
                    /\ lret' = [status |-> "returned", value |-> response]
                    /\ lpc' = "while"
                    /\ elapsed' = elapsed + wait
                    /\ UNCHANGED response
              [] outcome = "timeout" ->
                    /\ lret' = [status |-> "returned", value |-> response]
                    /\ lpc' = "while"
                    /\ elapsed' = elapsed + Timeout
                    /\ UNCHANGED response
              [] outcome = "reset" ->
                    /\ lret' = [status |-> "raised ConnectionResetError", value |-> << >>]
                    /\ lpc' = "crashed"
                    /\ elapsed' = elapsed + wait
                    /\ UNCHANGED response
    /\ UNCHANGED << scenario, handed, proxy_hostname, raw_socket, is_connection_closed, last_used_stream_id,
                    sockets, socket_socket, sent, pc, ret, req, issued, hist, using_socket >>

\* ---------------------------------------------------------- specifications

NextAlloc == \E n \in NArgs : GenerateStreamIds(n)

\* The allocator alone, from any value of last_used_stream_id.
SpecAlloc == InitAlloc /\ [][NextAlloc]_vars

NextSplit ==
    \/ \E n \in NArgs : GenerateStreamIds(n)
    \/ \E stream_id \in FreeStreamIds, body \in Bodies :
           CreateSinglePacket(stream_id, body, UsualHeaders, TRUE)

\* The allocator and the request splitter, over every body up to MaxBodyLen.
SpecSplit == Init /\ [][NextSplit]_vars

\* The bodies of the requests that are sent in the whole-connection
\* specification: None, "" and the one-character body U+00E9 (two bytes).
SentBodies ==
    { [kind |-> "None", v |-> << >>], [kind |-> "str", v |-> << >>],
      [kind |-> "str", v |-> << 233 >>] }

Next ==
    \/ \E n \in NArgs : GenerateStreamIds(n)
    \/ \E ok \in BOOLEAN : SetupCreateSocket(ok)
    \/ \E ok \in SendOutcomes : SetupSendPreface(ok)
    \/ \E ok \in SendOutcomes : SetupSendSettings(ok)
    \/ SetupElse
    \/ \E ok \in SendOutcomes : CloseSendGoAway(ok)
    \/ CloseSocketClose
    \/ CloseSetNone
    \/ CloseSetFlag
    \/ \E ok \in SendOutcomes : SendPingFrame(ok)
    \/ \E stream_id \in FreeStreamIds, body \in SentBodies :
           CreateSinglePacket(stream_id, body, UsualHeaders, TRUE)
    \/ \E ok \in SendOutcomes : SendFramesBulk(ok)
    \/ \E ok \in SendOutcomes : SendFramesTrigger(ok)

\* One connection used by one calling thread.
Spec == Init /\ [][Next]_vars

\* A connection as constructed, in a process that runs whole sessions.
InitSessions ==
    /\ proxy_hostname \in BOOLEAN
    /\ raw_socket = 0
    /\ is_connection_closed = TRUE
    /\ last_used_stream_id = 1
    /\ sockets = << >>
    /\ socket_socket = "socket"
    /\ sent = << >>
    /\ pc = "idle"
    /\ ret = Ret("__init__", "ok", << >>, NoArg, 1)
    /\ req = NoReq
    /\ issued = << >>
    /\ hist = NoHist
    /\ scenario = "sessions"
    /\ NoListener
    /\ handed = NoHanded

NextSessions ==
    \/ \E ok \in BOOLEAN : SetupCreateSocket(ok)
    \/ \E ok \in SendOutcomes : SetupSendPreface(ok)
    \/ \E ok \in SendOutcomes : SetupSendSettings(ok)
    \/ SetupElse
    \/ CatchSystemExit
    \/ \E ok \in SendOutcomes : CloseSendGoAway(ok)
    \/ CloseSocketClose
    \/ CloseSetNone
    \/ CloseSetFlag
    \/ \E ok \in SendOutcomes : SendBytesCall(ok)
    \/ \E body \in SentBodies, ok \in SendOutcomes :
           SendFramesCall(create_simple_http2_request(1, body), ok)
    \/ \E ok \in SendOutcomes : SendPingFrame(ok)
    \/ \E stream_id \in SimpleStreamIds, body \in SentBodies, ok \in SendOutcomes :
           SendSimpleHttp2Request(stream_id, body, UsualHeaders, TRUE, ok)
    \/ OtherProxiedSetup
    \/ \E i \in 1..Len(sockets) : Finalize(i)

\* One connection through several sessions (set up, used, closed, set up
\* again), in a process that may hold other connections.
SpecSessions == InitSessions /\ [][NextSessions]_vars

\* A connection as constructed, whose owner will start the listener thread.
InitListener ==
    /\ proxy_hostname \in BOOLEAN
    /\ raw_socket = 0
    /\ is_connection_closed = TRUE
    /\ last_used_stream_id = 1
    /\ sockets = << >>
    /\ socket_socket = "socket"
    /\ sent = << >>
    /\ pc = "idle"
    /\ ret = Ret("__init__", "ok", << >>, NoArg, 1)
    /\ req = NoReq
    /\ issued = << >>
    /\ hist = NoHist
    /\ scenario = "listener"
    /\ NoListener
    /\ handed = NoHanded

NextListener ==
    \/ \E ok \in BOOLEAN : SetupCreateSocket(ok)
    \/ \E ok \in SendOutcomes : SetupSendPreface(ok)
    \/ \E ok \in SendOutcomes : SetupSendSettings(ok)
    \/ SetupElse
    \/ \E ok \in SendOutcomes : CloseSendGoAway(ok)
    \/ CloseSocketClose
    \/ CloseSetNone
    \/ CloseSetFlag
    \/ ListenerStart
    \/ ListenerWhile
    \/ ListenerGetUsingSocket
    \/ ListenerSetTimeout
    \/ \E outcome \in RecvOutcomes, wait \in 0..(Timeout - 1) : ListenerRecv(outcome, wait)

\* The lifecycle owner and the listener thread, interleaved step by step.
SpecListener == InitListener /\ [][NextListener]_vars

\* A connection as constructed, whose caller has a header block and a value
\* of check_headers_lowercase to build its requests with: handed.given and
\* handed.check hold them from the start.
InitHeaders ==
    /\ proxy_hostname \in BOOLEAN
    /\ raw_socket = 0
    /\ is_connection_closed = TRUE
    /\ last_used_stream_id = 1
    /\ sockets = << >>
    /\ socket_socket = "socket"
    /\ sent = << >>
    /\ pc = "idle"
    /\ ret = Ret("__init__", "ok", << >>, NoArg, 1)
    /\ req = NoReq
    /\ issued = << >>
    /\ hist = NoHist
    /\ scenario = "headers"
    /\ NoListener
    /\ handed \in [op : {"none"}, given : HeaderBlocks, check : BOOLEAN, headers : {<< >>}]

NextHeaders ==
    \/ \E body \in SentBodies :
           CreateSinglePacket(1, body, handed.given, handed.check)
    \/ \E body \in SentBodies :
           CreateSimpleHttp2Request(1, body, handed.given, handed.check)
    \/ \E body \in SentBodies, ok \in SendOutcomes :
           SendSimpleHttp2Request(1, body, handed.given, handed.check, ok)

\* The three operations that build a request, over every header block.
SpecHeaders == InitHeaders /\ [][NextHeaders]_vars

\* A connection as constructed, on a transport that may take only a part of
\* what it is given.
InitPartial ==
    /\ proxy_hostname \in BOOLEAN
    /\ raw_socket = 0
    /\ is_connection_closed = TRUE
    /\ last_used_stream_id = 1
    /\ sockets = << >>
    /\ socket_socket = "socket"
    /\ sent = << >>
    /\ pc = "idle"
    /\ ret = Ret("__init__", "ok", << >>, NoArg, 1)
    /\ req = NoReq
    /\ issued = << >>
    /\ hist = NoHist
    /\ scenario = "partial"
    /\ NoListener
    /\ handed = NoHanded

NextPartial ==
    \/ \E ok \in BOOLEAN : SetupCreateSocket(ok)
    \/ \E ok \in SendOutcomes : SetupSendPreface(ok)
    \/ \E ok \in SendOutcomes : SetupSendSettings(ok)
    \/ SetupElse
    \/ \E ok \in SendOutcomes : SendBytesCall(ok)
    \/ \E body \in SentBodies, ok \in SendOutcomes :
           SendFramesCall(create_simple_http2_request(1, body), ok)

\* One session in which socket.send may take less than it is given.
SpecPartial == InitPartial /\ [][NextPartial]_vars

\* ------------------------------------------------------------------ claims

\* C1: for every n >= 1 and every value of last_used_stream_id, odd or even,
\* generate_stream_ids(n) returns exactly n ids, all odd, rising in steps of
\* 2, all above last_used_stream_id as it was before the call, and leaves
\* last_used_stream_id at the largest id returned.
C1_AllocateContract ==
    (ret.op = "generate_stream_ids" /\ IsInstanceInt(ret.arg) /\ ret.arg.val >= 1) =>
        /\ ret.status = "ok"
        /\ Len(ret.ids) = ret.arg.val
        /\ \A i \in 1..Len(ret.ids) : ret.ids[i] % 2 = 1 /\ ret.ids[i] > ret.before
        /\ \A i \in 1..(Len(ret.ids) - 1) : ret.ids[i + 1] = ret.ids[i] + 2
        /\ last_used_stream_id = ret.ids[Len(ret.ids)]

\* C1 witness: a call with n = 2 made while last_used_stream_id was even.
C1_Witness ==
    /\ ret.op = "generate_stream_ids"
    /\ ret.status = "ok"
    /\ ret.before % 2 = 0
    /\ Len(ret.ids) = 2

\* C2: whatever the calls of one connection (valid and invalid arguments,
\* setup, close, request building, sends), every step leaves the ids issued
\* so far in place, adds only ids above all of them, never issues an id
\* twice, and never lowers last_used_stream_id.
C2_NeverReused ==
    [][ /\ last_used_stream_id' >= last_used_stream_id
        /\ Len(issued') >= Len(issued)
        /\ SubSeq(issued', 1, Len(issued)) = issued
        /\ \A i, j \in 1..Len(issued') : i < j => issued'[i] < issued'[j] ]_vars

\* C2 witness: ids from a second call, made on a connection that was set up
\* in between and has sent bytes.
C2_Witness ==
    /\ Len(issued) >= 2
    /\ ret.op = "generate_stream_ids"
    /\ ret.status = "ok"
    /\ Len(ret.ids) < Len(issued)
    /\ ~is_connection_closed
    /\ sent # << >>

\* C3: generate_stream_ids(n) with n <= 0 or with an n that is no int fails
\* with ValueError, returns no ids, makes no call on the transport and
\* leaves last_used_stream_id, the closed flag and the socket as they were.
C3_InvalidArgument ==
    [][ (ret'.op = "generate_stream_ids" /\ (~IsInstanceInt(ret'.arg) \/ ret'.arg.val <= 0)) =>
            /\ ret'.status = "ValueError"
            /\ ret'.ids = << >>
            /\ UNCHANGED << last_used_stream_id, is_connection_closed, raw_socket,
                            sockets, sent, issued >> ]_vars

\* C3 witness: a float argument rejected on a connected connection that has
\* already issued ids.
C3_Witness ==
    /\ ret.op = "generate_stream_ids"
    /\ ret.status = "ValueError"
    /\ ret.arg.kind = "float"
    /\ ~is_connection_closed
    /\ last_used_stream_id > 1

\* The frames of a group, as a set.
FramesOf(group) == { group[i] : i \in 1..Len(group) }

RECURSIVE DataPayload(_)
\* The payload bytes of the DATA frames of a group, in order.
DataPayload(group) ==
    IF Len(group) = 0 THEN << >>
    ELSE (IF Head(group).type = "DATA" THEN Head(group).data ELSE << >>)
             \o DataPayload(Tail(group))

\* The request the caller built last was built from this body.
BuiltFrom(body) ==
    /\ ret.op = "create_single_packet_http2_request_frames"
    /\ req.body = body

\* C4: for a body of length L >= 1 (one byte, or spanning several DATA
\* frames) the call returns (bulk, trigger) where the DATA payloads of bulk
\* followed by the trigger's payload are the body's bytes, the trigger's
\* payload is one byte, no bulk frame carries ES and the trigger carries it.
C4_SplitReproducesBody ==
    \A body \in Bodies :
        (BuiltFrom(body) /\ body.kind = "str" /\ Len(body.v) >= 1) =>
            /\ ret.status = "ok"
            /\ req.state = "built"
            /\ Len(req.trigger) = 1
            /\ DataPayload(req.bulk) \o req.trigger[1].data = Utf8(body.v)
            /\ Len(req.trigger[1].data) = 1
            /\ \A f \in FramesOf(req.bulk) : "ES" \notin f.flags
            /\ "ES" \in req.trigger[1].flags

\* C4 witness: a body with a two-byte character whose bulk group holds the
\* HEADERS frame and two DATA frames.
C4_Witness ==
    /\ req.state = "built"
    /\ req.body.kind = "str"
    /\ 233 \in Range(req.body.v)
    /\ Len(req.bulk) = 3
    /\ Len(req.bulk[2].data) > 0

\* C5: for a request with no body (None, or length 0) the call still returns
\* a trigger; it has no payload and carries ES, and the last bulk frame, the
\* HEADERS frame, has lost ES.
C5_NoBodyTrigger ==
    \A body \in Bodies :
        (BuiltFrom(body) /\ ~Truthy(body)) =>
            /\ ret.status = "ok"
            /\ req.state = "built"
            /\ Len(req.trigger) = 1
            /\ req.trigger[1].data = << >>
            /\ "ES" \in req.trigger[1].flags
            /\ Last(req.bulk).type = "HEADERS"
            /\ \A f \in FramesOf(req.bulk) : "ES" \notin f.flags

\* The peer of some transport has received a frame of this stream with ES.
ESDelivered(stream_id) ==
    \E i \in 1..Len(sent) :
        /\ sent[i].ok
        /\ \E f \in FramesOf(sent[i].data) : f.stream_id = stream_id /\ "ES" \in f.flags

\* C6: bulk and trigger carry the request's stream id; while the trigger has
\* not been sent no peer has seen ES on that stream, whatever was sent in
\* between; the frame that brings ES is the trigger, sent after the bulk
\* group, and a delivered trigger completes the stream.
C6_StreamOpenUntilTrigger ==
    (req.state \in {"built", "bulk_sent", "done"}) =>
        /\ \A f \in FramesOf(req.bulk) \cup FramesOf(req.trigger) :
               f.stream_id = req.stream_id
        /\ req.state # "done" => ~ESDelivered(req.stream_id)
        /\ \A i \in 1..Len(sent) :
               (/\ sent[i].ok
                /\ \E f \in FramesOf(sent[i].data) :
                       f.stream_id = req.stream_id /\ "ES" \in f.flags)
                   => /\ sent[i].data = req.trigger
                      /\ \A k \in 1..Len(sent) : sent[k].data = req.bulk => k < i
        /\ (req.state = "done" /\ \E i \in 1..Len(sent) :
                                     sent[i].ok /\ sent[i].data = req.trigger)
               => ESDelivered(req.stream_id)

\* C6 witness: a request with a body whose bulk group was delivered first and
\* whose trigger then completed the stream.
C6_Witness ==
    /\ req.state = "done"
    /\ Truthy(req.body)
    /\ ESDelivered(req.stream_id)
    /\ \E k \in 1..Len(sent) : sent[k].ok /\ sent[k].data = req.bulk

\* C7: when the send of the preface or of the SETTINGS frame fails during
\* setup_connection on an unconnected connection, the closed flag stays true.
C7_HandshakeSendFailureAborts ==
    (hist.op = "setup" /\ hist.closedAtStart /\ hist.sendFailed) => is_connection_closed

\* C8: when opening the transport fails in setup_connection, the process is
\* ended with exit(1), the closed flag and raw_socket stay what they were (a
\* closed flag stays true), and nothing is sent: no preface, no SETTINGS.
C8_ConnectFailureAborts ==
    (hist.op = "setup" /\ hist.connectFailed) =>
        /\ pc = "exited"
        /\ ret.op = "setup_connection" /\ ret.status = "exit(1)"
        /\ is_connection_closed = hist.closedAtStart
        /\ raw_socket = hist.sock
        /\ Len(sent) = hist.sentAtStart

\* C8 witness: a proxied connection, never connected, whose connect failed.
C8_Witness ==
    /\ hist.op = "setup"
    /\ hist.connectFailed
    /\ proxy_hostname
    /\ hist.closedAtStart
    /\ pc = "exited"

\* C9: the closed flag is true from construction until a setup_connection
\* has returned, false from then until a close_connection has returned, true
\* after that; and construction opens no transport and sends nothing.
C9_ClosedFlagLifecycle ==
    /\ is_connection_closed = (hist.completed # "setup")
    /\ ret.op = "__init__" => (sockets = << >> /\ sent = << >> /\ raw_socket = 0)

\* C9 witness: a connection that was set up and then closed.
C9_Witness ==
    /\ hist.completed = "close"
    /\ is_connection_closed
    /\ sockets # << >>
    /\ pc = "idle"

\* What close_connection has sent since it began.
SentByClose == SubSeq(sent, hist.sentAtStart + 1, Len(sent))

\* C10: close_connection on a Connected connection makes exactly one send,
\* of one GOAWAY frame with error code 0, on the connection's transport and
\* while that transport is still open; when it returns the transport is
\* closed, raw_socket is None and the closed flag is true.
C10_CloseSendsOneGoAway ==
    (ret.op = "close_connection" /\ ~hist.closedAtStart /\ hist.sock # 0) =>
        /\ ret.status \in {"running", "ok"}
        /\ Len(SentByClose) = 1
        /\ SentByClose[1].sock = hist.sock
        /\ Len(SentByClose[1].data) = 1
        /\ SentByClose[1].data[1].type = "GOAWAY"
        /\ SentByClose[1].data[1].err_code = 0
        /\ pc = "close_close" =>
               (raw_socket = hist.sock /\ sockets[hist.sock].state = "open")
        /\ pc = "idle" =>
               /\ ret.status = "ok"
               /\ sockets[hist.sock].state = "closed"
               /\ raw_socket = 0
               /\ is_connection_closed

\* C10 witness: a close_connection that returned on a connection that was
\* Connected, its GOAWAY delivered.
C10_Witness ==
    /\ ret.op = "close_connection"
    /\ ret.status = "ok"
    /\ ~hist.closedAtStart
    /\ Len(SentByClose) = 1
    /\ SentByClose[1].ok

\* C11: a close_connection called on a connection that close_connection has
\* already closed (closed flag true, raw_socket None) sends no frame, does not end with an
\* unhandled error, and leaves the closed flag true and raw_socket None.
C11_SecondCloseIsNoOp ==
    (ret.op = "close_connection" /\ hist.op = "close" /\ hist.completed = "close"
        /\ hist.closedAtStart /\ hist.sock = 0) =>
        /\ Len(sent) = hist.sentAtStart
        /\ ret.status # "AttributeError"
        /\ is_connection_closed
        /\ raw_socket = 0

\* The operations that send outside the lifecycle.
SendOps == {"send_bytes", "send_frames", "send_ping_frame", "send_simple_http2_request"}

\* The send calls a step has added to the log.
NewSends == { i \in 1..Len(sent') : i > Len(sent) }

\* C12 (as stated): Closed is terminal: once a close_connection has
\* completed, no later step, of a send operation or of setup_connection,
\* delivers bytes to a transport or makes the closed flag false again.
C12_ClosedIsTerminal ==
    [][ hist.completed = "close" =>
            /\ is_connection_closed'
            /\ \A i \in NewSends : ~sent'[i].ok ]_vars

\* C12 (amended): Closed lasts until setup_connection is run again: once a
\* close_connection has completed, every step but the start of a new
\* setup_connection (sends, a further close) delivers no bytes and leaves
\* the closed flag true and raw_socket None.
C12_ClosedUntilSetupAgain ==
    [][ (hist.op = "close" /\ hist.completed = "close" /\ hist'.op # "setup") =>
            /\ is_connection_closed'
            /\ raw_socket' = 0
            /\ \A i \in NewSends : ~sent'[i].ok ]_vars

\* C12 witness: a send tried on a connection that close_connection has closed.
C12_Witness ==
    /\ hist.op = "close"
    /\ hist.completed = "close"
    /\ ret.op \in SendOps
    /\ ret.status = "error printed"
    /\ is_connection_closed
    /\ raw_socket = 0

\* C13: the SETTINGS frame setup_connection sends carries exactly the
\* entries (1, 4096), (2, 0), (3, 100), (4, 65535), (5, 16384), in this
\* order, and none for id 6; it is what the second send of the handshake sends.
C13_InitialSettings ==
    /\ \A i \in 1..Len(sent) : \A f \in FramesOf(sent[i].data) :
           f.type = "SETTINGS" =>
               f.settings = << << 1, 4096 >>, << 2, 0 >>, << 3, 100 >>,
                               << 4, 65535 >>, << 5, 16384 >> >>
    /\ pc = "setup_else" =>
           /\ Len(sent) = hist.sentAtStart + 2
           /\ Len(Last(sent).data) = 1
           /\ Last(sent).data[1].type = "SETTINGS"

\* C13 witness: a handshake whose SETTINGS frame was delivered.
C13_Witness ==
    /\ pc = "setup_else"
    /\ Last(sent).ok
    /\ Last(sent).data[1].type = "SETTINGS"
    /\ Len(Last(sent).data[1].settings) = 5

\* C14: read_response_from_socket never surfaces an error: every call that
\* has ended, whatever the transport did (timeout, peer closed, any other
\* I/O error, a transport released by close), has returned the bytes it
\* had received, in arrival order.
C14_ReadNeverRaises ==
    lret.status # "none" =>
        /\ lret.status = "returned"
        /\ \A i \in 1..Len(lret.value) : lret.value[i] = i

\* C15: a read_response_from_socket call never takes longer than its
\* timeout, however many chunks the peer delivers: neither a call still
\* receiving nor one that has ended has taken more than Timeout ticks.
C15_ReadWithinTimeout == elapsed <= Timeout

\* C16: whatever the interleaving with close_connection, the listener
\* thread never ends with an unhandled error raised because its transport
\* was closed under it.
C16_ListenerEndsCleanly == ~(lpc = "crashed" /\ lret.status = "raised OSError")

\* C17: the transport is given the byte groups in the order of the send
\* calls, none overtaking another; the bulk group of a request, sent before
\* its trigger, is handed over before the trigger.
C17_SendOrder ==
    /\ \A i, j \in 1..Len(sent) : i < j => sent[i].call < sent[j].call
    /\ req.state \in {"bulk_sent", "done"} =>
           \A i, k \in 1..Len(sent) :
               (sent[i].data = req.trigger /\ sent[k].data = req.bulk) => k < i

\* C17 witness: a handshake, then the bulk group and the trigger of a
\* request sent back to back, all four sends delivered.
C17_Witness ==
    /\ req.state = "done"
    /\ Len(sent) = 4
    /\ \A i \in 1..4 : sent[i].ok /\ sent[i].call = i
    /\ sent[3].data = req.bulk
    /\ sent[4].data = req.trigger

\* C18: when the send of send_bytes, send_frames, send_ping_frame or
\* send_simple_http2_request fails, the error is reported (printed with its
\* cause) and the closed flag, raw_socket, the sockets and
\* last_used_stream_id are what they were before the call.
C18_SendFailureLeavesState ==
    [][ (/\ pc = "idle"
         /\ ret'.op \in SendOps
         /\ ret'.status # "UnboundLocalError"
         /\ ret' # ret \/ sent' # sent
         /\ \A i \in NewSends : ~sent'[i].ok) =>
            /\ ret'.status = "error printed"
            /\ UNCHANGED << is_connection_closed, raw_socket, sockets,
                            last_used_stream_id >> ]_vars

\* C18 witness: a ping on a Connected connection whose send has failed.
C18_Witness ==
    /\ ret.op = "send_ping_frame"
    /\ ret.status = "error printed"
    /\ hist.completed = "setup"
    /\ ~is_connection_closed
    /\ raw_socket # 0
    /\ sockets[raw_socket].state = "open"
    /\ ~Last(sent).ok

\* C19 (as stated): on every transport the connection has opened, direct or
\* proxied, send coalescing is disabled (TCP_NODELAY is 1).
C19_CoalescingDisabled == \A i \in 1..Len(sockets) : sockets[i].nodelay = 1

\* C19 (amended): on every transport the connection has opened, direct or
\* proxied, TCP_NODELAY is 0: Nagle's algorithm is left enabled, so the
\* transport layer may batch back-to-back sends.
C19_NagleEnabled == \A i \in 1..Len(sockets) : sockets[i].nodelay = 0

\* C19 witness: a connection set up through a proxy, its transport open.
C19_Witness ==
    /\ proxy_hostname
    /\ ~is_connection_closed
    /\ raw_socket # 0
    /\ sockets[raw_socket].state = "open"
    /\ sockets[raw_socket].via = "socks"

\* C20: the transport variant follows from the connection's own proxy
\* parameters alone: every transport of a connection constructed without a
\* proxy is a direct one, every transport of one constructed with a proxy
\* goes through the proxy, whatever other connections of the process did.
C20_VariantIsOwn ==
    \A i \in 1..Len(sockets) :
        sockets[i].via = (IF proxy_hostname THEN "socks" ELSE "direct")

\* Every header name of the block is in lower case.
NamesLowercase(headers) ==
    \A i \in 1..Len(headers) : \A k \in 1..Len(headers[i].name) :
        headers[i].name[k] \notin 65..90

\* C21 (as stated): whatever the parameters of the operation, the header
\* block handed to the frame codec has all its header names in lower case.
C21_NamesAlwaysLowercase == handed.op # "none" => NamesLowercase(handed.headers)

\* C21 (amended): when check_headers_lowercase is true, the header block
\* handed to the frame codec is the caller's with every name in lower case
\* and every value untouched; when it is false, the codec is handed the
\* caller's block as it is.
C21_NamesLowercaseWhenChecked ==
    handed.op # "none" =>
        /\ Len(handed.headers) = Len(handed.given)
        /\ \A i \in 1..Len(handed.given) : handed.headers[i].value = handed.given[i].value
        /\ handed.check =>
               /\ NamesLowercase(handed.headers)
               /\ \A i \in 1..Len(handed.given) :
                      handed.headers[i].name = LowerStr(handed.given[i].name)
        /\ ~handed.check => handed.headers = handed.given

\* C21 witness: send_simple_http2_request, check_headers_lowercase true, given
\* a block of two headers with upper-case letters in their names.
C21_Witness ==
    /\ handed.op = "send_simple_http2_request"
    /\ handed.check
    /\ Len(handed.given) = 2
    /\ handed.given[1].name = << 65, 97 >>
    /\ handed.given[2].name = << 65, 65 >>
    /\ handed.headers[1].name = << 97, 97 >>
    /\ handed.headers[2].name = << 97, 97 >>

\* The first byte group delivered on transport i, if any was.
FirstDelivered(i) ==
    { k \in 1..Len(sent) :
        /\ sent[k].sock = i /\ sent[k].ok
        /\ \A j \in 1..(k - 1) : ~(sent[j].sock = i /\ sent[j].ok) }

\* C22: on every transport setup_connection has opened, the first byte group
\* delivered is the 24-byte preface, so no frame reaches the peer before it;
\* the closed flag is false only if a SETTINGS frame has been sent, and when
\* setup_connection returns, the SETTINGS frame on the connection's
\* transport is the last thing that was sent.
C22_HandshakeOrder ==
    /\ \A i \in 1..Len(sockets) : \A k \in FirstDelivered(i) :
           sent[k].data = << H2_PREFACE >>
    /\ ~is_connection_closed =>
           \E k \in 1..Len(sent) : \E f \in FramesOf(sent[k].data) : f.type = "SETTINGS"
    /\ (ret.op = "setup_connection" /\ ret.status = "ok") =>
           /\ Last(sent).sock = raw_socket
           /\ \E f \in FramesOf(Last(sent).data) : f.type = "SETTINGS"

\* C23: after send_simple_http2_request on a Connected connection, with a
\* body or without one, the call has not raised and the last send on the
\* connection's transport is the one send of the request's frames.
C23_SimpleRequestSentOnce ==
    (ret.op = "send_simple_http2_request" /\ ~is_connection_closed /\ raw_socket # 0) =>
        /\ ret.status \in {"ok", "error printed"}
        /\ sent # << >>
        /\ Last(sent).sock = raw_socket
        /\ \E f \in FramesOf(Last(sent).data) : f.type = "HEADERS"

\* C24: whenever send_bytes, called by the user or through send_frames, has
\* ended as a success, the transport has taken the whole byte group.
C24_SuccessMeansWhole ==
    (ret.op \in {"send_bytes", "send_frames"} /\ ret.status = "ok") => Last(sent).whole

\* C25: whenever no lifecycle operation is in progress, after completed and
\* failed setup_connection and close_connection calls alike, the closed flag
\* is false exactly when raw_socket is not None, and raw_socket then names
\* an open transport.
C25_FlagIffTransport ==
    pc \in {"idle", "exited"} =>
        /\ is_connection_closed = (raw_socket = 0)
        /\ raw_socket # 0 => sockets[raw_socket].state = "open"

\* C25 witness: a Connected connection whose second setup_connection failed
\* to connect, the caller having caught the exit.
C25_Witness ==
    /\ pc = "idle"
    /\ ret.op = "setup_connection"
    /\ ret.status = "exit(1)"
    /\ hist.connectFailed
    /\ ~hist.closedAtStart
    /\ ~is_connection_closed
    /\ raw_socket # 0

\* C26: the connection has at most one open transport at any time, and every
\* transport it opened and no longer references was released by
\* close_connection.
C26_NoLeakedTransport ==
    /\ Cardinality({ i \in 1..Len(sockets) : sockets[i].state = "open" }) <= 1
    /\ \A i \in 1..Len(sockets) : i # raw_socket => sockets[i].state = "closed"

====
